---- MODULE Spec2Model ----
(***************************************************************************)
(* Model of the two command-line utilities of the repository:              *)
(*   SplitFile/SplitFile.py   main(args): splits line-oriented input files *)
(*                            into chunks of max_lines lines               *)
(*   ics_parser/ics_parser.py parse_ics_to_human_readable: sorts the       *)
(*                            VEVENTs of a calendar and renders a report   *)
(* Spec is the splitter's state machine, SpecIcs the calendar report's.    *)
(***************************************************************************)
EXTENDS Integers, Sequences, FiniteSets, TLC

\* ------------------------------------------------------------------ bounds
\* most input files named on one command line
MaxFiles == 2
\* most lines of one input file
MaxLen == 4
\* largest value given to -s/--size
MaxSize == 3
\* most lines of the header file
MaxPre == 2
\* most VEVENT components of a calendar
MaxEvents == 3
\* latest day of a start
MaxDay == 1
\* latest hour of the day of a timed start
MaxHour == 1
\* largest UTC offset, in hours, of a timezone-aware start
MaxOffset == 1

\* SplitFile.py line 9
MAX_LINES_DEFAULT == 50

VARIABLES
    args_files,      \* args.files with the content of each file: <<[path, lines]>>
    args_preamble,   \* args.preamble and the header file: [given, lines]
    args_size,       \* args.size; 0 stands for an absent (or zero, falsy) option
    preamble,        \* main's preamble
    max_lines,       \* main's max_lines
    count,           \* main's count
    fi,              \* position of the for loop in args.files (0 before the loop)
    input_filename,  \* main's input_filename (<<>> while unbound)
    fp,              \* lines of the current input returned by readline so far
    outfiles,        \* every output file opened so far, in order of creation:
                     \* [name, input, lines, open]
    printed,         \* the error messages printed so far
    opened,          \* the inputs opened so far, by position in args.files
    lines_read,      \* lines readline has returned in the whole invocation
    pc,              \* position in main
    ics_events,      \* the VEVENT components of the calendar, in walk() order
    events,          \* parse_ics_to_human_readable's events list
    output_lines,    \* the rendered report, one block per rendered event
    ics_pc           \* position in parse_ics_to_human_readable

split_vars == <<args_files, args_preamble, args_size, preamble, max_lines, count,
                fi, input_filename, fp, outfiles, printed, opened,
                lines_read, pc>>
ics_vars == <<ics_events, events, output_lines, ics_pc>>
vars == <<split_vars, ics_vars>>

\* ----------------------------------------------------------------- helpers
Max(S) == CHOOSE x \in S : \A y \in S : y <= x

\* the index of the last c in p, 0 when there is none (str.rfind, 1-based)
RFind(p, c) == LET S == {k \in 1..Len(p) : p[k] = c} IN IF S = {} THEN 0 ELSE Max(S)

\* os.path.splitext: split at the last dot that follows the last separator,
\* unless only dots lie between the separator and that dot
splitext(p) ==
    LET sepIndex == RFind(p, "/")
        dotIndex == RFind(p, ".")
    IN IF dotIndex > sepIndex
          /\ \E k \in (sepIndex + 1)..(dotIndex - 1) : p[k] # "."
       THEN <<SubSeq(p, 1, dotIndex - 1), SubSeq(p, dotIndex, Len(p))>>
       ELSE <<p, <<>> >>

DigitChars == <<"0", "1", "2", "3", "4", "5", "6", "7", "8", "9">>

\* str(n) of a non-negative integer, as a sequence of characters
RECURSIVE Str(_)
Str(n) == IF n < 10 THEN <<DigitChars[n + 1]>>
          ELSE Str(n \div 10) \o <<DigitChars[(n % 10) + 1]>>

\* int(count/max_lines): true division truncated; both are non-negative here
ChunkIndex(c, m) == c \div m

\* input_filename_parts[0] + "-" + str(int(count/max_lines)) + input_filename_parts[1]
OutputFilename(path, c, m) ==
    splitext(path)[1] \o <<"-">> \o Str(ChunkIndex(c, m)) \o splitext(path)[2]

\* the paths given on the command line, by position
PathPool == << <<"a", ".", "t">>, <<"d", ".", "x", "/", "b">>, <<".", "r", "c">>,
               <<"a", ".", "b", ".", "t">> >>
PathOf(i) == PathPool[((i - 1) % Len(PathPool)) + 1]

\* line j of the i-th input file; line j of the header file is HeaderLine(j)
InputLine(i, j) == <<i, j>>
HeaderLine(j) == <<0, j>>
InputFile(i, n) == [path |-> PathOf(i), lines |-> [j \in 1..n |-> InputLine(i, j)]]

\* `if args.size: max_lines = args.size`
MaxLinesOf(size) == IF size # 0 THEN size ELSE MAX_LINES_DEFAULT

\* the rotation test `count % max_lines == 0`
RotationDue_late(c, m) == c % m = 1 /\ c > 1
RotationDue(c, m) == c % m = 0

\* outfile.write(line)
Write_lost(f, l) == f
Write(f, l) == [f EXCEPT !.lines = Append(@, l)]

\* outfile.writelines(preamble) on the first output file of an input
Writelines(f, p) == [f EXCEPT !.lines = @ \o p]

\* outfile.writelines(preamble) on an output file opened by a rotation
WritelinesRotated_none(f, p) == f
WritelinesRotated(f, p) == [f EXCEPT !.lines = @ \o p]

\* outfile.close() on a rotation
CloseRotated_leak(f) == f
CloseRotated(f) == [f EXCEPT !.open = FALSE]

\* outfile.close() at end of input
Close(f) == [f EXCEPT !.open = FALSE]

\* open(output_filename, 'w')
Open(name, i) == [name |-> name, input |-> i, lines |-> <<>>, open |-> TRUE]

\* where control goes after the except clause of main: out of main
AfterExcept_continue == "for"
AfterExcept == "failed"

\* print("ERROR processing {}: {}".format(input_filename, str(ex)))
ErrorProcessing(name) == [msg |-> "ERROR processing", file |-> name]
ErrorHeader == [msg |-> "ERROR reading header file", file |-> <<>>]

\* the current output file (main's outfile) is the one created last
Cur == Len(outfiles)

\* ------------------------------------------------------------ the splitter
InputsArgs ==
    {[i \in 1..n |-> InputFile(i, len[i])] : n \in 1..MaxFiles, len \in [1..MaxFiles -> 0..MaxLen]}

PreambleArgs ==
    {[given |-> FALSE, lines |-> <<>>]}
    \cup {[given |-> TRUE, lines |-> [j \in 1..k |-> HeaderLine(j)]] : k \in 0..MaxPre}

IcsIdle ==
    /\ ics_events = <<>>
    /\ events = <<>>
    /\ output_lines = <<>>
    /\ ics_pc = "idle"

Init ==
    /\ args_files \in InputsArgs
    /\ args_preamble \in PreambleArgs
    /\ args_size \in 0..MaxSize
    /\ preamble = <<>>
    /\ max_lines = MAX_LINES_DEFAULT
    /\ count = 0
    /\ fi = 0
    /\ input_filename = <<>>
    /\ fp = 0
    /\ outfiles = <<>>
    /\ printed = <<>>
    /\ opened = <<>>
    /\ lines_read = 0
    /\ pc = "start"
    /\ IcsIdle

\* lines 30-42: read the header file, if any, and settle max_lines
ReadPreamble ==
    /\ pc = "start"
    /\ \E ok \in BOOLEAN :
         /\ preamble' = IF args_preamble.given /\ ok THEN args_preamble.lines ELSE <<>>
         /\ printed' = IF args_preamble.given /\ ~ok THEN Append(printed, ErrorHeader)
                        ELSE printed
    /\ max_lines' = MaxLinesOf(args_size)
    /\ pc' = "for"
    /\ UNCHANGED <<args_files, args_preamble, args_size, count, fi, input_filename,
                   fp, outfiles, opened, lines_read, ics_vars>>

\* an exception reaches the except clause of line 82
Raise(name) ==
    /\ printed' = Append(printed, ErrorProcessing(name))
    /\ pc' = AfterExcept

\* lines 46-56: the next input file is opened, its first output file is opened
\* and receives the preamble; r is the call that raises, if any
ForNext ==
    /\ pc = "for"
    /\ fi < Len(args_files)
    /\ \E r \in {"ok", "open_input", "open_output", "writelines"} :
         LET i == fi + 1
             name == OutputFilename(args_files[i].path, count, max_lines)
         IN /\ fi' = i
            /\ input_filename' = args_files[i].path
            /\ fp' = 0
            /\ opened' = IF r = "open_input" THEN opened ELSE Append(opened, i)
            /\ outfiles' = CASE r = "ok" -> Append(outfiles, Writelines(Open(name, i), preamble))
                             [] r = "writelines" -> Append(outfiles, Open(name, i))
                             [] OTHER -> outfiles
            /\ IF r = "ok" THEN pc' = "read" /\ printed' = printed
               ELSE Raise(args_files[i].path)
    /\ UNCHANGED <<args_files, args_preamble, args_size, preamble, max_lines, count,
                   lines_read, ics_vars>>

\* line 46: args.files is exhausted and main returns
ForEnd ==
    /\ pc = "for"
    /\ fi = Len(args_files)
    /\ pc' = "done"
    /\ UNCHANGED <<args_files, args_preamble, args_size, preamble, max_lines, count,
                   fi, input_filename, fp, outfiles, printed, opened, lines_read,
                   ics_vars>>

\* lines 60-66: count += 1, then readline; at end of input leave the loop,
\* otherwise write the line to the current output file
ReadLine ==
    /\ pc = "read"
    /\ count' = count + 1
    /\ \E r \in {"ok", "readline", "write"} :
         LET content == args_files[fi].lines
         IN CASE r = "readline" ->
                   /\ Raise(input_filename)
                   /\ UNCHANGED <<fp, lines_read, outfiles>>
              [] r = "write" ->
                   /\ fp < Len(content)
                   /\ fp' = fp + 1
                   /\ lines_read' = lines_read + 1
                   /\ Raise(input_filename)
                   /\ UNCHANGED outfiles
              [] OTHER ->
                   IF fp = Len(content)
                   THEN /\ pc' = "close"
                        /\ UNCHANGED <<fp, lines_read, outfiles, printed>>
                   ELSE /\ fp' = fp + 1
                        /\ lines_read' = lines_read + 1
                        /\ outfiles' = [outfiles EXCEPT ![Cur] = Write(@, content[fp + 1])]
                        /\ pc' = "test"
                        /\ UNCHANGED printed
    /\ UNCHANGED <<args_files, args_preamble, args_size, preamble, max_lines, fi,
                   input_filename, opened, ics_vars>>

\* line 68: the rotation test
Test ==
    /\ pc = "test"
    /\ pc' = IF RotationDue(count, max_lines) THEN "rotate_close" ELSE "read"
    /\ UNCHANGED <<args_files, args_preamble, args_size, preamble, max_lines, count,
                   fi, input_filename, fp, outfiles, printed, opened, lines_read,
                   ics_vars>>

\* line 70: the current output file is closed
RotateClose ==
    /\ pc = "rotate_close"
    /\ outfiles' = [outfiles EXCEPT ![Cur] = CloseRotated(@)]
    /\ \E r \in {"ok", "close"} :
         IF r = "ok" THEN pc' = "rotate_open" /\ printed' = printed ELSE Raise(input_filename)
    /\ UNCHANGED <<args_files, args_preamble, args_size, preamble, max_lines, count,
                   fi, input_filename, fp, opened, lines_read, ics_vars>>

\* lines 71-78: the next output file is opened and receives the preamble
RotateOpen ==
    /\ pc = "rotate_open"
    /\ \E r \in {"ok", "open", "writelines"} :
         LET name == OutputFilename(input_filename, count, max_lines)
         IN /\ outfiles' = CASE r = "ok" ->
                                  Append(outfiles, WritelinesRotated(Open(name, fi), preamble))
                             [] r = "writelines" -> Append(outfiles, Open(name, fi))
                             [] OTHER -> outfiles
            /\ IF r = "ok" THEN pc' = "read" /\ printed' = printed ELSE Raise(input_filename)
    /\ UNCHANGED <<args_files, args_preamble, args_size, preamble, max_lines, count,
                   fi, input_filename, fp, opened, lines_read, ics_vars>>

\* line 80: at end of input the current output file is closed
CloseEnd ==
    /\ pc = "close"
    /\ outfiles' = [outfiles EXCEPT ![Cur] = Close(@)]
    /\ \E r \in {"ok", "close"} :
         IF r = "ok" THEN pc' = "for" /\ printed' = printed ELSE Raise(input_filename)
    /\ UNCHANGED <<args_files, args_preamble, args_size, preamble, max_lines, count,
                   fi, input_filename, fp, opened, lines_read, ics_vars>>

Next ==
    \/ ReadPreamble
    \/ ForNext
    \/ ForEnd
    \/ ReadLine
    \/ Test
    \/ RotateClose
    \/ RotateOpen
    \/ CloseEnd

Spec == Init /\ [][Next]_vars

\* ------------------------------------------------- properties of the splitter
\* the output files created for the i-th input, in order of creation
FilesOf(i) == SelectSeq(outfiles, LAMBDA f : f.input = i)

\* the lines of an output file with the preamble lines removed from its top
Content(f) == SubSeq(f.lines, Len(preamble) + 1, Len(f.lines))

RECURSIVE ConcatContent(_)
ConcatContent(fs) == IF fs = <<>> THEN <<>> ELSE Content(Head(fs)) \o ConcatContent(Tail(fs))

\* the i-th input was read to its end and its last output file was closed
Completed(i) == i < fi \/ (i = fi /\ pc \in {"for", "done"})

\* the i-th input is being read
Reading(i) == i = fi /\ pc \in {"read", "test", "rotate_close", "rotate_open", "close"}

HasErrorProcessing == \E k \in 1..Len(printed) : printed[k].msg = "ERROR processing"

\* C1: lossless split. For every input file read to its end, the output files
\* created for it, taken in order of creation, each without the preamble lines
\* at its top, concatenate to exactly the lines of the input, in order; while
\* an input is being read they concatenate to the lines read so far.
C1_Lossless ==
    \A i \in 1..Len(args_files) :
        /\ Completed(i) => ConcatContent(FilesOf(i)) = args_files[i].lines
        /\ Reading(i) => ConcatContent(FilesOf(i)) = SubSeq(args_files[i].lines, 1, fp)

C1_Witness ==
    /\ pc = "done"
    /\ Len(args_files) = 2
    /\ preamble # <<>>
    /\ Len(args_files[1].lines) >= 2
    /\ Len(args_files[2].lines) >= 3
    /\ Len(FilesOf(1)) >= 2
    /\ Len(FilesOf(2)) >= 2
    /\ ConcatContent(FilesOf(2)) = args_files[2].lines

\* C2: chunk-size invariant. Every output file other than the last one created
\* for its input holds exactly max_lines content lines, whatever the number of
\* input files.
C2_ChunkSize ==
    \A j \in 1..Len(outfiles) :
        (\E k \in (j + 1)..Len(outfiles) : outfiles[k].input = outfiles[j].input)
            => Len(Content(outfiles[j])) = max_lines

\* C3: an input of k * max_lines + r lines, 0 < r < max_lines, read to its end
\* has exactly k + 1 output files, the last holding r content lines.
C3_Remainder ==
    \A i \in 1..Len(args_files) :
        LET n == Len(args_files[i].lines)
            k == n \div max_lines
            r == n % max_lines
        IN (Completed(i) /\ r # 0)
              => /\ Len(FilesOf(i)) = k + 1
                 /\ Len(Content(FilesOf(i)[k + 1])) = r

\* C4: eager boundary file. A single input of k * max_lines lines, k >= 1, read
\* to its end has exactly k + 1 output files: the first k hold max_lines content
\* lines each, the last one holds the preamble and no content line, and all of
\* them are closed.
C4_EagerBoundary ==
    LET n == Len(args_files[1].lines)
        k == n \div max_lines
    IN (Len(args_files) = 1 /\ Completed(1) /\ n >= 1 /\ n % max_lines = 0)
          => /\ Len(outfiles) = k + 1
             /\ \A j \in 1..k : Len(Content(outfiles[j])) = max_lines
             /\ outfiles[k + 1].lines = preamble
             /\ \A j \in 1..(k + 1) : ~outfiles[j].open

C4_Witness ==
    /\ pc = "done"
    /\ Len(args_files) = 1
    /\ Len(args_files[1].lines) = 4
    /\ max_lines = 2
    /\ preamble # <<>>
    /\ Len(outfiles) = 3
    /\ outfiles[3].lines = preamble

\* C5: output naming. The output files created for an input carry the chunk
\* indices 0, 1, 2, ... in order of creation, the first being <base>-0<ext>,
\* with <base> and <ext> the input path split at its extension.
C5_Naming ==
    \A i \in 1..Len(args_files) :
        \A k \in 1..Len(FilesOf(i)) :
            FilesOf(i)[k].name =
                splitext(args_files[i].path)[1] \o <<"-">> \o Str(k - 1)
                    \o splitext(args_files[i].path)[2]

\* the write of the preamble to the output file created last raised: the file
\* exists and is empty, and the run has ended
HeaderWriteRaised(j) ==
    /\ pc = "failed"
    /\ j = Len(outfiles)
    /\ outfiles[j].lines = <<>>
    /\ outfiles[j].open

\* C6: preamble placement. Every output file (the first of an input, one opened
\* by a rotation, a trailing one without content) starts with all the preamble
\* lines, in order, and holds only content lines of its input after them; with
\* no header file, or an empty one, it holds content lines only. The one file
\* left out is the file whose preamble write itself raised (C7's case).
C6_Preamble ==
    /\ preamble \in {<<>>, args_preamble.lines}
    /\ \A j \in 1..Len(outfiles) :
         LET f == outfiles[j]
         IN \/ HeaderWriteRaised(j)
            \/ /\ Len(f.lines) >= Len(preamble)
               /\ SubSeq(f.lines, 1, Len(preamble)) = preamble
               /\ \A k \in (Len(preamble) + 1)..Len(f.lines) : f.lines[k][1] = f.input

C6_Witness ==
    /\ pc = "done"
    /\ Len(preamble) = 2
    /\ Len(outfiles) >= 3
    /\ outfiles[1].input = 1
    /\ outfiles[2].input = 1
    /\ Content(outfiles[2]) # <<>>
    /\ outfiles[Len(outfiles)].input = 2
    /\ outfiles[Len(outfiles)].lines = preamble

\* C7: fatal abort. Once a failure of the i-th input is reported, the report
\* names that input file and it is the only one, main has ended (no step is
\* left), no input after the i-th was opened, no output file of a later input
\* exists, and the output files of the earlier inputs are complete and closed.
C7_FatalAbort ==
    (HasErrorProcessing \/ pc = "failed")
        => /\ pc = "failed"
           /\ ~ENABLED Next
           /\ printed[Len(printed)] = ErrorProcessing(args_files[fi].path)
           /\ \A k \in 1..(Len(printed) - 1) : printed[k].msg # "ERROR processing"
           /\ input_filename = args_files[fi].path
           /\ \A k \in 1..Len(opened) : opened[k] <= fi
           /\ \A j \in 1..Len(outfiles) : outfiles[j].input <= fi
           /\ \A i \in 1..(fi - 1) :
                /\ ConcatContent(FilesOf(i)) = args_files[i].lines
                /\ \A k \in 1..Len(FilesOf(i)) : ~FilesOf(i)[k].open

C7_Witness ==
    /\ pc = "failed"
    /\ Len(args_files) = 2
    /\ fi = 1
    /\ Len(outfiles) >= 2
    /\ printed[Len(printed)] = ErrorProcessing(args_files[1].path)

\* C9: scoped output files. At most one output file is open at any time; every
\* output file but the one created last is closed; and none is open between a
\* rotation's close and its open, nor when the next input is about to be opened.
C9_Scoped ==
    /\ Cardinality({j \in 1..Len(outfiles) : outfiles[j].open}) <= 1
    /\ \A j \in 1..(Len(outfiles) - 1) : ~outfiles[j].open
    /\ pc \in {"for", "done", "rotate_open"} => \A j \in 1..Len(outfiles) : ~outfiles[j].open

C9_Witness ==
    /\ pc = "read"
    /\ fi = 2
    /\ Len(FilesOf(1)) >= 2
    /\ Len(FilesOf(2)) >= 2
    /\ outfiles[Len(outfiles)].open

\* C10: line counter. Whenever a line has just been written and the rotation
\* test is about to be made, count equals the number of lines read so far in
\* the invocation, over all input files.
C10_Counter == pc = "test" => count = lines_read

\* ------------------------------------------------------ the calendar report
\* hours of a day: datetime(y, m, d, 0, 0, 0) is hour 0 of day d
HoursPerDay == 24
Midnight(day) == day * HoursPerDay

\* the values of a VEVENT's dtstart: absent, a date (all-day), a datetime
\* without tzinfo, or a datetime with tzinfo (wall clock t, UTC offset off)
NoStart == [kind |-> "none", t |-> 0, off |-> 0]
Starts ==
    {NoStart}
    \cup {[kind |-> "date", t |-> d, off |-> 0] : d \in 0..MaxDay}
    \cup {[kind |-> "naive", t |-> Midnight(d) + h, off |-> 0] : d \in 0..MaxDay, h \in 0..MaxHour}
    \cup {[kind |-> "aware", t |-> Midnight(d) + h, off |-> o] :
            d \in 0..MaxDay, h \in 0..MaxHour, o \in 0..MaxOffset}

Calendars ==
    UNION {[1..n -> Starts] : n \in 0..MaxEvents}

\* the value None of sort_key, and datetime.min, which precedes every start
NoneKey == [none |-> TRUE, aware |-> FALSE, t |-> 0]
DatetimeMin == [none |-> FALSE, aware |-> FALSE, t |-> 0 - 1]

\* lines 46-53: the datetime itself, midnight of an all-day date, else None;
\* two timezone-aware datetimes compare by their UTC instants
SortKeyDt(start) ==
    CASE start.kind = "aware" -> [none |-> FALSE, aware |-> TRUE, t |-> start.t - start.off]
      [] start.kind = "naive" -> [none |-> FALSE, aware |-> FALSE, t |-> start.t]
      [] start.kind = "date" -> [none |-> FALSE, aware |-> FALSE, t |-> Midnight(start.t)]
      [] OTHER -> NoneKey

\* line 73: key=lambda x: x['sort_key'] if x['sort_key'] is not None else datetime.min
SortKey(e) == IF e.sort_key.none THEN DatetimeMin ELSE e.sort_key

\* datetime.__lt__ raises TypeError between an offset-naive and an offset-aware value
LtRaises(a, b) == a.aware # b.aware
Lt(a, b) == a.t < b.t

\* list.sort: stable, by SortKey; an exception of a comparison propagates.
\* Insertion from the right: e goes behind every element that is not greater.
RECURSIVE Insert(_, _)
Insert(s, e) ==
    IF s.list = <<>> THEN [raised |-> s.raised, list |-> <<e>>]
    ELSE LET l == s.list[Len(s.list)]
             front == [raised |-> s.raised, list |-> SubSeq(s.list, 1, Len(s.list) - 1)]
         IN IF LtRaises(SortKey(e), SortKey(l)) THEN [raised |-> TRUE, list |-> s.list]
            ELSE IF Lt(SortKey(e), SortKey(l))
                 THEN LET r == Insert(front, e)
                      IN [raised |-> r.raised, list |-> Append(r.list, l)]
                 ELSE [raised |-> s.raised, list |-> Append(s.list, e)]

RECURSIVE Sort(_, _)
Sort(done, rest) ==
    IF rest = <<>> \/ done.raised THEN done
    ELSE Sort(Insert(done, Head(rest)), Tail(rest))

\* lines 83-116: the lines rendered for one event
TitleLine(e) == [tag |-> "Title", summary |-> e.summary, text |-> "", t |-> 0, off |-> 0]
StartLine(e) ==
    LET st == e.start_prop
    IN CASE st.kind = "aware" ->
              [tag |-> "Start", summary |-> e.summary, text |-> "%Z%z", t |-> st.t, off |-> st.off]
         [] st.kind = "naive" ->
              [tag |-> "Start", summary |-> e.summary, text |-> "(Local Time/No TZ info)",
               t |-> st.t, off |-> 0]
         [] OTHER ->
              [tag |-> "Start", summary |-> e.summary, text |-> "(All Day Event)",
               t |-> st.t, off |-> 0]
Separator(e) == [tag |-> "----", summary |-> e.summary, text |-> "", t |-> 0, off |-> 0]

RenderEvent(e) ==
    <<TitleLine(e)>>
    \o (IF e.start_prop.kind # "none" THEN <<StartLine(e)>> ELSE <<>>)
    \o <<Separator(e)>>

RECURSIVE RenderAll(_)
RenderAll(es) == IF es = <<>> THEN <<>> ELSE RenderEvent(Head(es)) \o RenderAll(Tail(es))

SplitIdle ==
    /\ args_files = <<>>
    /\ args_preamble = [given |-> FALSE, lines |-> <<>>]
    /\ args_size = 0
    /\ preamble = <<>>
    /\ max_lines = MAX_LINES_DEFAULT
    /\ count = 0
    /\ fi = 0
    /\ input_filename = <<>>
    /\ fp = 0
    /\ outfiles = <<>>
    /\ printed = <<>>
    /\ opened = <<>>
    /\ lines_read = 0
    /\ pc = "idle"

IcsInit ==
    /\ SplitIdle
    /\ ics_events \in Calendars
    /\ events = <<>>
    /\ output_lines = <<>>
    /\ ics_pc = "read"

\* lines 19-27: the file is read and parsed, or an error is printed and the
\* function returns
IcsRead ==
    /\ ics_pc = "read"
    /\ \E ok \in BOOLEAN : ics_pc' = IF ok THEN "walk" ELSE "returned"
    /\ UNCHANGED <<ics_events, events, output_lines, split_vars>>

\* lines 29-68: one entry of events per VEVENT, in walk() order
IcsCollect ==
    /\ ics_pc = "walk"
    /\ events' = [k \in 1..Len(ics_events) |->
                     [sort_key |-> SortKeyDt(ics_events[k]),
                      summary |-> k,
                      start_prop |-> ics_events[k]]]
    /\ ics_pc' = "sort"
    /\ UNCHANGED <<ics_events, output_lines, split_vars>>

\* line 73: events.sort(...); a TypeError of a comparison is caught nowhere
IcsSort ==
    /\ ics_pc = "sort"
    /\ LET r == Sort([raised |-> FALSE, list |-> <<>>], events)
       IN IF r.raised
          THEN ics_pc' = "TypeError" /\ UNCHANGED events
          ELSE ics_pc' = "render" /\ events' = r.list
    /\ UNCHANGED <<ics_events, output_lines, split_vars>>

\* lines 75-130: the report is rendered and written
IcsRender ==
    /\ ics_pc = "render"
    /\ output_lines' = RenderAll(events)
    /\ ics_pc' = "done"
    /\ UNCHANGED <<ics_events, events, split_vars>>

IcsNext ==
    \/ IcsRead
    \/ IcsCollect
    \/ IcsSort
    \/ IcsRender

SpecIcs == IcsInit /\ [][IcsNext]_vars

\* --------------------------------------------- properties of the calendar report
\* the summaries of the rendered events, in the order of the report
Titles == SelectSeq(output_lines, LAMBDA l : l.tag = "Title")

\* the start the claim orders by: no start first, an all-day date as its midnight
ClaimedKey(k) == SortKey([sort_key |-> SortKeyDt(ics_events[k])])

\* C8: chronological report. Once a calendar has parsed and the function has
\* ended, every VEVENT is rendered exactly once, and the events appear in
\* non-decreasing order of their starts (an all-day start as its midnight, an
\* event without a start first), whatever the mix of timezone-aware, naive,
\* all-day and start-less events.
C8_Chronological ==
    ics_pc \in {"done", "TypeError"}
        => /\ Len(Titles) = Len(ics_events)
           /\ \A k \in 1..Len(ics_events) :
                Cardinality({a \in 1..Len(Titles) : Titles[a].summary = k}) = 1
           /\ \A a, b \in 1..Len(Titles) :
                (a < b /\ ~LtRaises(ClaimedKey(Titles[a].summary), ClaimedKey(Titles[b].summary)))
                    => ~Lt(ClaimedKey(Titles[b].summary), ClaimedKey(Titles[a].summary))
====
